---- MODULE Spec2Model ----
(***************************************************************************)
(* Model of maint/GenerateUtt.py, the generator of PCRE's table of Unicode  *)
(* property names (_pcre_utt_names and _pcre_utt).                          *)
(*                                                                         *)
(* A Python string is a sequence of one-character strings; Str joins such   *)
(* a sequence into the text that is printed.  The output stream is the      *)
(* sequence `out` of printed lines, each a record holding the arguments of  *)
(* the print statement that wrote it.                                       *)
(***************************************************************************)
EXTENDS Integers, Sequences, FiniteSets

VARIABLES script_names, category_names, general_category_names,
          utt_table, pc, i, last, offset, out, run, prev

vars == <<script_names, category_names, general_category_names,
          utt_table, pc, i, last, offset, out, run, prev>>

(***************************************************************************)
(* Bounds of the model: the longest input lists.                            *)
(***************************************************************************)
MaxScripts == 2
MaxCategories == 1
MaxGeneral == 1

(***************************************************************************)
(* Characters and their codes (str comparison in Python 2 is by byte).      *)
(***************************************************************************)
Upper == <<"A","B","C","D","E","F","G","H","I","J","K","L","M",
           "N","O","P","Q","R","S","T","U","V","W","X","Y","Z">>
Lower == <<"a","b","c","d","e","f","g","h","i","j","k","l","m",
           "n","o","p","q","r","s","t","u","v","w","x","y","z">>

IndexOf(c, s) == CHOOSE k \in 1..Len(s) : s[k] = c

(* the byte of a character *)
ord(c) == IF \E k \in 1..Len(Upper) : Upper[k] = c THEN 64 + IndexOf(c, Upper)
          ELSE IF \E k \in 1..Len(Lower) : Lower[k] = c THEN 96 + IndexOf(c, Lower)
          ELSE IF c = "&" THEN 38
          ELSE IF c = "-" THEN 45
          ELSE 95       \* "_"

RECURSIVE Str(_)
Str(s) == IF s = <<>> THEN "" ELSE Head(s) \o Str(Tail(s))

(* s < t for two Python 2 byte strings *)
RECURSIVE StrLess(_, _)
StrLess(s, t) ==
    IF t = <<>> THEN FALSE
    ELSE IF s = <<>> THEN TRUE
    ELSE IF ord(Head(s)) # ord(Head(t)) THEN ord(Head(s)) < ord(Head(t))
    ELSE StrLess(Tail(s), Tail(t))

(* a sort in descending order *)
TupleLess_Descending(u, v) ==
    IF u[1] # v[1] THEN StrLess(v[1], u[1]) ELSE StrLess(v[2], u[2])

(* u < v for two (name, tag) tuples: by name, and by tag on equal names *)
TupleLess(u, v) ==
    IF u[1] # v[1] THEN StrLess(u[1], v[1]) ELSE StrLess(u[2], v[2])

(***************************************************************************)
(* The names and the tags.                                                  *)
(***************************************************************************)
PT_SC   == <<"P","T","_","S","C">>
PT_PC   == <<"P","T","_","P","C">>
PT_GC   == <<"P","T","_","G","C">>
PT_LAMP == <<"P","T","_","L","A","M","P">>
PT_ANY  == <<"P","T","_","A","N","Y">>

Lamp  == <<"L","&">>
Any   == <<"A","n","y">>
Latin == <<"L","a","t","i","n">>
Thai  == <<"T","h","a","i">>
Lu    == <<"L","u">>
L     == <<"L">>
L_AMPERSAND == <<"L","_","A","M","P","E","R","S","A","N","D">>
A_b   == <<"A","-","b">>

ScriptPool   == {Latin, Thai, L_AMPERSAND, A_b}
CategoryPool == {Lu, Thai}
GeneralPool  == {L}

SeqsUpTo(S, n) == UNION {[1..k -> S] : k \in 0..n}

(* the permutations of a list *)
Perms(s) ==
    {[k \in 1..Len(s) |-> s[f[k]]] :
        f \in {g \in [1..Len(s) -> 1..Len(s)] :
                  \A a, b \in 1..Len(s) : a # b => g[a] # g[b]}}

(***************************************************************************)
(* Lines 33-39: the merged table and its sort.                              *)
(***************************************************************************)
zip(names, tag) == [k \in 1..Len(names) |-> <<names[k], tag>>]

(* line 34 assigns where it should extend *)
Merge_Overwrite(s, c, g) ==
    zip(c, PT_PC) \o zip(g, PT_GC)
        \o << <<Lamp, PT_LAMP>> >> \o << <<Any, PT_ANY>> >>

Merge(s, c, g) ==
    zip(s, PT_SC) \o zip(c, PT_PC) \o zip(g, PT_GC)
        \o << <<Lamp, PT_LAMP>> >> \o << <<Any, PT_ANY>> >>

(* insert u into the sorted list t, after the entries that are not greater *)
RECURSIVE Insert(_, _)
Insert(u, t) ==
    IF t = <<>> THEN <<u>>
    ELSE IF TupleLess(u, Head(t)) THEN <<u>> \o t
    ELSE <<Head(t)>> \o Insert(u, Tail(t))

RECURSIVE SortFrom(_, _)
SortFrom(t, acc) ==
    IF t = <<>> THEN acc ELSE SortFrom(Tail(t), Insert(Head(t), acc))

(* line 39 left out *)
Sort_None(t) == t

(* a table keyed by name: one entry for a name *)
RECURSIVE UniqueNames(_, _)
UniqueNames(t, seen) ==
    IF t = <<>> THEN <<>>
    ELSE IF Head(t)[1] \in seen THEN UniqueNames(Tail(t), seen)
    ELSE <<Head(t)>> \o UniqueNames(Tail(t), seen \cup {Head(t)[1]})

Sort_UniqueNames(t) == SortFrom(UniqueNames(t, {}), <<>>)

Sort(t) == SortFrom(t, <<>>)

(***************************************************************************)
(* Lines 44-53: the symbol definitions.                                     *)
(***************************************************************************)
EOS == "\"\\0\""

RECURSIVE Replace(_)
Replace(s) ==
    IF s = <<>> THEN <<>>
    ELSE (IF Head(s) = "&" THEN <<"_","A","M","P","E","R","S","A","N","D">>
          ELSE <<Head(s)>>) \o Replace(Tail(s))

Ident(name) == "STRING_" \o Str(Replace(name)) \o "0"

Token(c) == IF c = "_" THEN "STR_UNDERSCORE"
            ELSE IF c = "&" THEN "STR_AMPERSAND"
            ELSE "STR_" \o c

Spelling(name) == [k \in 1..Len(name) |-> Token(name[k])] \o <<EOS>>

DefineLine(utt) ==
    [kind |-> "define", ident |-> Ident(utt[1]), body |-> Spelling(utt[1])]

(***************************************************************************)
(* Lines 57-79: the names blob and the lookup table.                        *)
(***************************************************************************)
TextLine(t) == [kind |-> "text", text |-> t]

(* the last entry recognised by its name alone *)
IsLast_ByName(utt, table) == utt[1] = table[Len(table)][1]

IsLast(utt, table) == utt = table[Len(table)]

NameLine(utt, l) == [kind |-> "name", ref |-> Ident(utt[1]), last |-> l]

(* PT_LAMP forgotten *)
Value_AnyOnly(utt) == IF utt[2] = PT_ANY THEN "0"
                      ELSE "ucp_" \o Str(utt[1])

Value(utt) == IF utt[2] \in {PT_ANY, PT_LAMP} THEN "0"
              ELSE "ucp_" \o Str(utt[1])

RowLine(off, utt, l) ==
    [kind |-> "row", offset |-> off, type |-> Str(utt[2]),
     value |-> Value(utt), last |-> l]

(* the terminator not counted *)
OffsetStep_NoTerminator(off, utt) == off + Len(utt[1])

OffsetStep(off, utt) == off + Len(utt[1]) + 1

(***************************************************************************)
(* The run of the script.                                                   *)
(***************************************************************************)
Init ==
    /\ script_names \in SeqsUpTo(ScriptPool, MaxScripts)
    /\ category_names \in SeqsUpTo(CategoryPool, MaxCategories)
    /\ general_category_names \in SeqsUpTo(GeneralPool, MaxGeneral)
    /\ utt_table = <<>>
    /\ pc = "build"
    /\ i = 0
    /\ last = ""
    /\ offset = 0
    /\ out = <<>>
    /\ run = 1
    /\ prev = [lists |-> <<>>, out |-> <<>>]

inputs == <<script_names, category_names, general_category_names>>

(* lines 33-37 *)
Build ==
    /\ pc = "build"
    /\ utt_table' = Merge(script_names, category_names, general_category_names)
    /\ pc' = "sort"
    /\ UNCHANGED <<inputs, i, last, offset, out, run, prev>>

(* line 39 *)
SortTable ==
    /\ pc = "sort"
    /\ utt_table' = Sort(utt_table)
    /\ i' = 1
    /\ pc' = "defs"
    /\ UNCHANGED <<inputs, last, offset, out, run, prev>>

(* lines 44-53, one entry *)
EmitDefine ==
    /\ pc = "defs"
    /\ i <= Len(utt_table)
    /\ out' = Append(out, DefineLine(utt_table[i]))
    /\ i' = i + 1
    /\ UNCHANGED <<inputs, utt_table, pc, last, offset, run, prev>>

(* lines 57-59 *)
NamesHeader ==
    /\ pc = "defs"
    /\ i > Len(utt_table)
    /\ out' = out \o <<TextLine(""), TextLine("const char _pcre_utt_names[] = ")>>
    /\ last' = ""
    /\ i' = 1
    /\ pc' = "names"
    /\ UNCHANGED <<inputs, utt_table, offset, run, prev>>

(* lines 60-63, one entry *)
EmitName ==
    /\ pc = "names"
    /\ i <= Len(utt_table)
    /\ last' = IF IsLast(utt_table[i], utt_table) THEN ";" ELSE last
    /\ out' = Append(out, NameLine(utt_table[i], last'))
    /\ i' = i + 1
    /\ UNCHANGED <<inputs, utt_table, pc, offset, run, prev>>

(* lines 67-69 *)
TableHeader ==
    /\ pc = "names"
    /\ i > Len(utt_table)
    /\ out' = Append(out, TextLine("\nconst ucp_type_table _pcre_utt[] = { "))
    /\ offset' = 0
    /\ last' = ","
    /\ i' = 1
    /\ pc' = "table"
    /\ UNCHANGED <<inputs, utt_table, run, prev>>

(* lines 70-78, one entry *)
EmitRow ==
    /\ pc = "table"
    /\ i <= Len(utt_table)
    /\ last' = IF IsLast(utt_table[i], utt_table) THEN "" ELSE last
    /\ out' = Append(out, RowLine(offset, utt_table[i], last'))
    /\ offset' = OffsetStep(offset, utt_table[i])
    /\ i' = i + 1
    /\ UNCHANGED <<inputs, utt_table, pc, run, prev>>

(* line 79 *)
Close ==
    /\ pc = "table"
    /\ i > Len(utt_table)
    /\ out' = Append(out, TextLine("};"))
    /\ pc' = "done"
    /\ UNCHANGED <<inputs, utt_table, i, last, offset, run, prev>>

(* The script is run again on the same lists, each in any order. *)
Rerun ==
    /\ pc = "done"
    /\ run = 1
    /\ script_names' \in Perms(script_names)
    /\ category_names' \in Perms(category_names)
    /\ general_category_names' \in Perms(general_category_names)
    /\ prev' = [lists |-> inputs, out |-> out]
    /\ run' = 2
    /\ utt_table' = <<>>
    /\ pc' = "build"
    /\ i' = 0
    /\ last' = ""
    /\ offset' = 0
    /\ out' = <<>>

Next ==
    \/ Build
    \/ SortTable
    \/ EmitDefine
    \/ NamesHeader
    \/ EmitName
    \/ TableHeader
    \/ EmitRow
    \/ Close
    \/ Rerun

Spec == Init /\ [][Next]_vars

(***************************************************************************)
(* Reading the output stream.                                               *)
(***************************************************************************)
IsDefine(l) == l.kind = "define"
IsName(l)   == l.kind = "name"
IsRow(l)    == l.kind = "row"

Defines == SelectSeq(out, IsDefine)
Names   == SelectSeq(out, IsName)
Rows    == SelectSeq(out, IsRow)

Sorted == pc \notin {"build", "sort"}

EntryName(k) == utt_table[k][1]
EntryTag(k)  == utt_table[k][2]

Count(s, x) == Cardinality({k \in DOMAIN s : s[k] = x})

AllNames == [k \in 1..Len(script_names) |-> script_names[k]]
            \o [k \in 1..Len(category_names) |-> category_names[k]]
            \o [k \in 1..Len(general_category_names) |-> general_category_names[k]]
            \o <<Lamp, Any>>

NInputs == Len(script_names) + Len(category_names) + Len(general_category_names) + 2

(* s < t byte-wise: s is a proper prefix of t, or the first difference is smaller in s *)
ByteLess(s, t) ==
    \E k \in 1..Len(t) :
        /\ k <= Len(s) + 1
        /\ \A j \in 1..(k - 1) : s[j] = t[j]
        /\ (k = Len(s) + 1 \/ (s[k] # t[k] /\ ord(s[k]) < ord(t[k])))

(* every artifact follows the order of the table *)
Aligned ==
    LET d == Defines
        n == Names
        r == Rows
    IN  /\ \A k \in 1..Len(d) : d[k] = DefineLine(utt_table[k])
        /\ \A k \in 1..Len(n) : n[k].ref = d[k].ident
        /\ \A k \in 1..Len(r) : r[k].type = Str(EntryTag(k))

IsExample ==
    /\ script_names = <<Latin>>
    /\ category_names = <<Lu>>
    /\ general_category_names = <<L>>

(***************************************************************************)
(* C1 as stated: for any input lists the sorted table is strictly           *)
(* ascending by byte-wise comparison of the names: name[k] < name[k+1] for  *)
(* every pair of adjacent entries.                                          *)
(***************************************************************************)
C1_StrictlyAscending ==
    Sorted => \A k \in 1..(Len(utt_table) - 1) :
                  ByteLess(EntryName(k), EntryName(k + 1))

(***************************************************************************)
(* C1 amended: the table that the three artifacts iterate over is in        *)
(* non-descending byte-wise order of the names; two adjacent entries are    *)
(* strictly ascending unless they carry the same name, and entries of the   *)
(* same name are in ascending order of their tags.  A proper prefix comes   *)
(* before the longer name.                                                  *)
(***************************************************************************)
C1_Ascending ==
    Sorted =>
        /\ Aligned
        /\ \A k \in 1..(Len(utt_table) - 1) :
              \/ ByteLess(EntryName(k), EntryName(k + 1))
              \/ /\ EntryName(k) = EntryName(k + 1)
                 /\ ~ ByteLess(EntryTag(k + 1), EntryTag(k))

C1_Witness ==
    /\ pc = "done"
    /\ [k \in 1..Len(utt_table) |-> EntryName(k)] = <<Any, L, Lamp, Latin, Lu>>

(***************************************************************************)
(* C2: the offset of the first row is 0, the offset of every later row is   *)
(* the offset of the row before it plus the length of that row's name plus  *)
(* one, so the offsets increase strictly; the offsets of the worked example *)
(* are 0, 4, 6, 9, 15.                                                      *)
(***************************************************************************)
C2_Offsets ==
    /\ Len(Rows) >= 1 => Rows[1].offset = 0
    /\ \A k \in 2..Len(Rows) :
          /\ Rows[k].offset = Rows[k - 1].offset + Len(EntryName(k - 1)) + 1
          /\ Rows[k].offset > Rows[k - 1].offset
    /\ (IsExample /\ pc = "done")
          => [k \in 1..Len(Rows) |-> Rows[k].offset] = <<0, 4, 6, 9, 15>>

C2_Witness == IsExample /\ pc = "done" /\ Len(Rows) = 5

(***************************************************************************)
(* C5: the value of a row is "0" exactly when its type is PT_ANY or         *)
(* PT_LAMP; the value of every other row is "ucp_" followed by the name of  *)
(* the row.                                                                 *)
(***************************************************************************)
C5_Values ==
    \A k \in 1..Len(Rows) :
        /\ Rows[k].value = "0" <=> Rows[k].type \in {"PT_ANY", "PT_LAMP"}
        /\ Rows[k].type \notin {"PT_ANY", "PT_LAMP"}
              => /\ Rows[k].value = "ucp_" \o Str(EntryName(k))
                 /\ Rows[k].value # ""
                 /\ Rows[k].type \in {"PT_SC", "PT_PC", "PT_GC"}

C5_Witness ==
    /\ pc = "done"
    /\ \E j, k \in 1..Len(Rows) :
          /\ Rows[j].type = "PT_LAMP" /\ Rows[j].value = "0"
          /\ Rows[k].type = "PT_SC" /\ Rows[k].value = "ucp_Latin"

(***************************************************************************)
(* C6: a finished run has written s + c + g + 2 rows, as many symbol        *)
(* definitions and as many references; every script name is there with the  *)
(* tag PT_SC, every category name with PT_PC, every general category name   *)
(* with PT_GC, L& with PT_LAMP and Any with PT_ANY, each as often as it is  *)
(* in the lists, and nothing else.                                          *)
(***************************************************************************)
C6_Entries ==
    pc = "done" =>
        /\ Len(Rows) = NInputs
        /\ Len(Defines) = NInputs
        /\ Len(Names) = NInputs
        /\ Aligned
        /\ \A n \in ScriptPool \cup CategoryPool \cup GeneralPool \cup {Lamp, Any} :
              /\ Count(utt_table, <<n, PT_SC>>) = Count(script_names, n)
              /\ Count(utt_table, <<n, PT_PC>>) = Count(category_names, n)
              /\ Count(utt_table, <<n, PT_GC>>) = Count(general_category_names, n)
              /\ Count(utt_table, <<n, PT_LAMP>>) = (IF n = Lamp THEN 1 ELSE 0)
              /\ Count(utt_table, <<n, PT_ANY>>) = (IF n = Any THEN 1 ELSE 0)

C6_Witness ==
    /\ pc = "done"
    /\ Len(script_names) = MaxScripts
    /\ Len(category_names) = MaxCategories
    /\ Len(general_category_names) = MaxGeneral
    /\ Len(Rows) = MaxScripts + MaxCategories + MaxGeneral + 2

(***************************************************************************)
(* Reading the names blob as the compiler does: a reference stands for the  *)
(* body of the definition of that identifier which is in effect where the   *)
(* blob is declared, the last one written; every token is one byte.         *)
(***************************************************************************)
Alphabet == {Upper[k] : k \in 1..Len(Upper)} \cup {Lower[k] : k \in 1..Len(Lower)}
            \cup {"&", "-", "_"}

NUL == "NUL"

Byte(tok) ==
    IF tok = EOS THEN NUL
    ELSE IF tok = "STR_UNDERSCORE" THEN "_"
    ELSE IF tok = "STR_AMPERSAND" THEN "&"
    ELSE CHOOSE c \in Alphabet : tok = "STR_" \o c

Expand(ref) ==
    LET ks == {k \in 1..Len(Defines) : Defines[k].ident = ref}
        k  == CHOOSE m \in ks : \A n \in ks : n <= m
    IN  Defines[k].body

RECURSIVE Flatten(_)
Flatten(ss) == IF ss = <<>> THEN <<>> ELSE Head(ss) \o Flatten(Tail(ss))

Blob ==
    LET toks == Flatten([k \in 1..Len(Names) |-> Expand(Names[k].ref)])
    IN  [k \in 1..Len(toks) |-> Byte(toks[k])]

(* the strings of a blob, each ended by a terminator *)
RECURSIVE Split(_, _)
Split(b, cur) ==
    IF b = <<>> THEN (IF cur = <<>> THEN <<>> ELSE <<cur>>)
    ELSE IF Head(b) = NUL THEN <<cur>> \o Split(Tail(b), <<>>)
    ELSE Split(Tail(b), Append(cur, Head(b)))

BlobDone == pc \in {"table", "done"}

(***************************************************************************)
(* C3 as stated: for every row, the bytes of the names blob from the        *)
(* offset of the row on are the characters of the name of the row followed  *)
(* by one terminator byte, and the type and the value of the row are those  *)
(* of that name.                                                            *)
(***************************************************************************)
C3_OffsetsIndexBlob ==
    pc = "done" =>
        \A k \in 1..Len(Rows) :
            LET o == Rows[k].offset
                n == EntryName(k)
            IN  /\ o + Len(n) + 1 <= Len(Blob)
                /\ \A j \in 1..Len(n) : Blob[o + j] = n[j]
                /\ Blob[o + Len(n) + 1] = NUL
                /\ Rows[k].type = Str(EntryTag(k))
                /\ Rows[k].value = (IF EntryTag(k) \in {PT_ANY, PT_LAMP}
                                    THEN "0" ELSE "ucp_" \o Str(n))

(***************************************************************************)
(* C4 as stated: the names blob, decoded and split on the terminator, is    *)
(* the sorted list of all input names: as long as the list, with every name *)
(* as often as the lists hold it, in non-descending byte-wise order, and    *)
(* every name spelt by as many tokens as it has characters and one          *)
(* terminator.                                                              *)
(***************************************************************************)
C4_BlobRoundTrip ==
    BlobDone =>
        LET d == Split(Blob, <<>>)
        IN  /\ Len(d) = NInputs
            /\ \A k \in 1..Len(d) : Count(d, d[k]) = Count(AllNames, d[k])
            /\ \A k \in 1..Len(AllNames) : Count(d, AllNames[k]) = Count(AllNames, AllNames[k])
            /\ \A k \in 1..(Len(d) - 1) : d[k] = d[k + 1] \/ ByteLess(d[k], d[k + 1])
            /\ \A k \in 1..Len(Names) :
                  /\ Len(Expand(Names[k].ref)) = Len(EntryName(k)) + 1
                  /\ Expand(Names[k].ref)[Len(EntryName(k)) + 1] = EOS

(***************************************************************************)
(* C7 as stated: when a name holds a character that is no letter, no "_"    *)
(* and no "&", the generation fails: the character is not encoded and the   *)
(* run does not reach its end with the whole output written.                *)
(***************************************************************************)
IsLetter(c) == (\E k \in 1..Len(Upper) : Upper[k] = c)
               \/ (\E k \in 1..Len(Lower) : Lower[k] = c)

Unmappable(n) == \E k \in 1..Len(n) : ~ IsLetter(n[k]) /\ n[k] \notin {"_", "&"}

HasUnmappable == \E k \in 1..Len(AllNames) : Unmappable(AllNames[k])

C7_UnmappableFails ==
    HasUnmappable =>
        /\ pc # "done"
        /\ \A k \in 1..Len(Defines) : \A j \in 1..Len(Defines[k].body) :
              Defines[k].body[j] \in {EOS, "STR_UNDERSCORE", "STR_AMPERSAND"}
              \/ \E c \in Alphabet : IsLetter(c) /\ Defines[k].body[j] = "STR_" \o c

(***************************************************************************)
(* C8: a second run on the same lists, each in any order, writes the        *)
(* output of the first run, line for line.                                  *)
(***************************************************************************)
C8_Deterministic ==
    (run = 2 /\ pc = "done") => out = prev.out

C8_Witness ==
    /\ run = 2
    /\ pc = "done"
    /\ prev.lists # inputs
    /\ Len(out) > NInputs

(***************************************************************************)
(* C9: a name that is in two lists is not rejected: the run reaches its end *)
(* with one row for each occurrence, s + c + g + 2 rows in all, and the     *)
(* offsets still follow the recurrence.                                     *)
(***************************************************************************)
HasDuplicate == \E j, k \in 1..Len(AllNames) : j # k /\ AllNames[j] = AllNames[k]

RowsOf(n) == Cardinality({k \in 1..Len(Rows) : EntryName(k) = n})

C9_DuplicatesKept ==
    (HasDuplicate /\ pc = "done") =>
        /\ Len(Rows) = NInputs
        /\ \A k \in 1..Len(AllNames) : RowsOf(AllNames[k]) = Count(AllNames, AllNames[k])
        /\ Rows[1].offset = 0
        /\ \A k \in 2..Len(Rows) :
              Rows[k].offset = Rows[k - 1].offset + Len(EntryName(k - 1)) + 1

C9_Witness ==
    /\ pc = "done"
    /\ \E j \in 1..Len(script_names) : script_names[j] = Thai
    /\ \E j \in 1..Len(category_names) : category_names[j] = Thai
    /\ RowsOf(Thai) >= 2

(***************************************************************************)
(* C10: when the entries of the table are pairwise distinct, one reference  *)
(* of the names blob ends with ";" and it is the last one, and every row of *)
(* the lookup table but the last is followed by "," and the last by         *)
(* nothing.                                                                 *)
(***************************************************************************)
DistinctEntries ==
    \A j, k \in 1..Len(utt_table) : j # k => utt_table[j] # utt_table[k]

C10_LastOnly ==
    (DistinctEntries /\ pc = "done") =>
        /\ \A k \in 1..Len(Names) : Names[k].last = (IF k = Len(Names) THEN ";" ELSE "")
        /\ \A k \in 1..Len(Rows) : Rows[k].last = (IF k = Len(Rows) THEN "" ELSE ",")

C10_Witness ==
    /\ DistinctEntries
    /\ pc = "done"
    /\ Len(utt_table) >= 4
    /\ EntryName(Len(utt_table)) = EntryName(Len(utt_table) - 1)

====
